---- MODULE Spec2Model ----
(***************************************************************************)
(* A model of mcp_server_time/http_server.py: the ASGI router `app`, the   *)
(* stateless JSON-RPC handler for POST /mcp (handle_direct_post), the SSE  *)
(* session handler for GET /mcp (handle_mcp_sse), the relay for            *)
(* POST /messages (handle_post_messages) and the two tool handlers         *)
(* registered on the session server (list_tools, call_tool).               *)
(*                                                                         *)
(* Strings built with f-strings are modelled as tuples of their parts, so  *)
(* that what a message contains can be inspected.  Python's None is the    *)
(* string "None".                                                          *)
(***************************************************************************)
EXTENDS Naturals, Integers, Sequences, FiniteSets, TLC

VARIABLES
    local_tz,      \* create_app: str(get_local_tz(local_timezone)), fixed at construction
    lifespan,      \* "waiting" | "started" | "shutdown": the lifespan loop of app
    stream,        \* per session: "none" | "open" | "closed" (the SSE response of GET /mcp)
    closedBy,      \* per session: "none" | "disconnect" | "shutdown" | "failure"
    sessState,     \* per session: "awaiting-initialize" | "ready" | "closed" (kept by server.run)
    last,          \* the exchange the most recent handler step completed
    initAnswered   \* history: the clients whose direct initialize was answered

vars == <<local_tz, lifespan, stream, closedBy, sessState, last, initAnswered>>

----------------------------------------------------------------------------
(* Bounds of the model *)

NumSessions == 1
NumClients == 2

Sessions == 1..NumSessions
Clients == 1..NumClients

----------------------------------------------------------------------------
(* Values *)

None == "None"

\* json_data.get("id"): an opaque id, None when the envelope has none
Ids == {"id1", "id2", None}

\* json_data.get("method"): None when the envelope has none
Methods == {"initialize", "notifications/initialized", "tools/list",
            "tools/call", "resources/list", None}

\* str(e) of the exception request.json() raises on a body that is not JSON
ParseDetails == {"Expecting value: line 1 column 1 (char 0)",
                 "Expecting property name enclosed in double quotes: line 1 column 2 (char 1)"}

\* valid JSON that is not an object
NonObjects == {"list", "string", "number"}

\* the bodies a client can POST to /mcp
Bodies ==
    [kind : {"object"}, id : Ids, method : Methods]
    \cup [kind : {"invalid"}, detail : ParseDetails]
    \cup [kind : {"nonobject"}, json : NonObjects]

LocalZones == {"UTC", "Asia/Tokyo"}

----------------------------------------------------------------------------
(* The time operations of .server (TimeServer), which http_server.py only  *)
(* calls: resolution fails on a name the zone database lacks, conversion   *)
(* also on a time that is not HH:MM with HH in 0-23 and MM in 0-59.        *)

KnownZones == {"UTC", "Asia/Tokyo", "America/New_York"}

ValidTimes == {"14:30", "00:00", "23:59"}

get_current_time(timezone) ==
    IF timezone \in KnownZones
    THEN [ok |-> TRUE, value |-> <<"TimeResult", timezone>>]
    ELSE [ok |-> FALSE, value |-> <<"UnknownTimezone", timezone>>]

convert_time(source_timezone, time, target_timezone) ==
    IF source_timezone \notin KnownZones
    THEN [ok |-> FALSE, value |-> <<"UnknownTimezone", source_timezone>>]
    ELSE IF target_timezone \notin KnownZones
    THEN [ok |-> FALSE, value |-> <<"UnknownTimezone", target_timezone>>]
    ELSE IF time \notin ValidTimes
    THEN [ok |-> FALSE, value |-> <<"InvalidTimeFormat", time>>]
    ELSE [ok |-> TRUE, value |-> <<"ConversionResult", source_timezone, time, target_timezone>>]

----------------------------------------------------------------------------
(* The tool descriptors *)

GET_CURRENT_TIME == "get_current_time"
CONVERT_TIME == "convert_time"

\* list_tools (lines 27-66): the two Tool objects; the descriptions interpolate local_tz
list_tools(tz) ==
    << [name |-> GET_CURRENT_TIME,
        description |-> <<"Get current time in a specific timezones">>,
        properties |-> [timezone |-> <<"string", "IANA timezone name", tz>>],
        required |-> <<"timezone">>],
       [name |-> CONVERT_TIME,
        description |-> <<"Convert time between timezones">>,
        properties |-> [source_timezone |-> <<"string", "Source IANA timezone name", tz>>,
                        time |-> <<"string", "Time to convert in 24-hour format (HH:MM)">>,
                        target_timezone |-> <<"string", "Target IANA timezone name", tz>>],
        required |-> <<"source_timezone", "time", "target_timezone">>] >>

\* a hand-written copy that has drifted from list_tools: convert_time no
\* longer requires "time"
tools_list_drifted(tz) ==
    << [name |-> "get_current_time",
        description |-> <<"Get current time in a specific timezones">>,
        properties |-> [timezone |-> <<"string", "IANA timezone name", tz>>],
        required |-> <<"timezone">>],
       [name |-> "convert_time",
        description |-> <<"Convert time between timezones">>,
        properties |-> [source_timezone |-> <<"string", "Source IANA timezone name", tz>>,
                        time |-> <<"string", "Time to convert in 24-hour format (HH:MM)">>,
                        target_timezone |-> <<"string", "Target IANA timezone name", tz>>],
        required |-> <<"source_timezone", "target_timezone">>] >>

\* tools_list of handle_direct_post (lines 172-209): the same list written out by hand
tools_list(tz) ==
    << [name |-> "get_current_time",
        description |-> <<"Get current time in a specific timezones">>,
        properties |-> [timezone |-> <<"string", "IANA timezone name", tz>>],
        required |-> <<"timezone">>],
       [name |-> "convert_time",
        description |-> <<"Convert time between timezones">>,
        properties |-> [source_timezone |-> <<"string", "Source IANA timezone name", tz>>,
                        time |-> <<"string", "Time to convert in 24-hour format (HH:MM)">>,
                        target_timezone |-> <<"string", "Target IANA timezone name", tz>>],
        required |-> <<"source_timezone", "time", "target_timezone">>] >>

----------------------------------------------------------------------------
(* tools/call: the requests a client can make and the handler call_tool *)

ConvertKeys == {"source_timezone", "time", "target_timezone"}

\* a dict with the keys ks, each mapped by vals
Dict(ks, vals) == [k \in ks |-> vals[k]]

GoodArgs == [timezone |-> "UTC", source_timezone |-> "UTC",
             time |-> "14:30", target_timezone |-> "Asia/Tokyo"]

\* the (name, arguments) pairs of the tools/call requests of the model:
\* get_current_time with timezone absent, empty, known and unknown;
\* convert_time with every subset of its three arguments, and with a bad
\* time and a bad zone; a tool that is not registered
ToolCalls ==
    {[name |-> GET_CURRENT_TIME, arguments |-> Dict({}, GoodArgs)]}
    \cup {[name |-> GET_CURRENT_TIME, arguments |-> Dict({"timezone"}, [timezone |-> z])] :
             z \in {"", "UTC", "Not/AZone"}}
    \cup {[name |-> CONVERT_TIME, arguments |-> Dict(ks, GoodArgs)] : ks \in SUBSET ConvertKeys}
    \cup {[name |-> CONVERT_TIME,
           arguments |-> Dict(ConvertKeys, [GoodArgs EXCEPT !.time = "25:00"])],
          [name |-> CONVERT_TIME,
           arguments |-> Dict(ConvertKeys, [GoodArgs EXCEPT !.source_timezone = "Not/AZone"])]}
    \cup {[name |-> "unknown_tool", arguments |-> Dict({"timezone"}, GoodArgs)]}

\* dict.get(key): None when the key is absent
Get(arguments, key) == IF key \in DOMAIN arguments THEN arguments[key] ELSE None

\* what a handler hands back: a return value or a raised exception with
\* str(e) = message; invoked tells whether a time operation was called
Returned(value, invoked) ==
    [raised |-> FALSE, value |-> value, message |-> <<>>, invoked |-> invoked]

Raised(message, invoked) ==
    [raised |-> TRUE, value |-> <<>>, message |-> message, invoked |-> invoked]

\* the time operation's outcome inside call_tool's try block: its failure
\* is an exception raised at line 80 or 89
Invoke(r) ==
    IF r.ok THEN Returned(r.value, TRUE) ELSE Raised(r.value, TRUE)

\* lines 74-95: the match statement
call_tool_match(name, arguments) ==
    CASE name = GET_CURRENT_TIME ->
            LET timezone == Get(arguments, "timezone")
            IN  IF timezone = None \/ timezone = ""      \* not timezone
                THEN Raised(<<"Missing required argument: ", "timezone">>, FALSE)
                ELSE Invoke(get_current_time(timezone))
      [] name = CONVERT_TIME ->
            IF ~(\A k \in ConvertKeys : k \in DOMAIN arguments)
            THEN Raised(<<"Missing required arguments">>, FALSE)
            ELSE Invoke(convert_time(arguments["source_timezone"],
                                     arguments["time"],
                                     arguments["target_timezone"]))
      [] OTHER -> Raised(<<"Unknown tool: ", name>>, FALSE)

\* lines 69-102: the result as one text block holding the JSON dump, and
\* every exception re-raised as ValueError("Error processing ...: " + str(e))
call_tool(name, arguments) ==
    LET r == call_tool_match(name, arguments)
    IN  IF r.raised
        THEN Raised(<<"Error processing mcp-server-time query: ">> \o r.message, r.invoked)
        ELSE Returned(<<[type |-> "text", text |-> <<"json.dumps">> \o r.value]>>, r.invoked)

----------------------------------------------------------------------------
(* HTTP responses.  A starlette Response called with (scope, receive,     *)
(* send) sends http.response.start and then http.response.body.           *)

NoBody == [empty |-> TRUE]

START == "http.response.start"
BODY == "http.response.body"

\* what one call of a handler did: the ASGI messages it sent, the JSON body
\* among them (env), the lines it logged, and whether it ended by raising
JSONResponse(content, status_code, logged) ==
    [status |-> status_code, env |-> content, sent |-> <<START, BODY>>,
     raised |-> FALSE, logged |-> logged]

Response(status_code, logged) ==
    [status |-> status_code, env |-> NoBody, sent |-> <<START, BODY>>,
     raised |-> FALSE, logged |-> logged]

\* the handler raised before sending anything
Propagated(logged) ==
    [status |-> 0, env |-> NoBody, sent |-> <<>>, raised |-> TRUE, logged |-> logged]

\* the handler returned without sending anything
NothingSent ==
    [status |-> 0, env |-> NoBody, sent |-> <<>>, raised |-> FALSE, logged |-> <<>>]

IsEnvelope(env) == "jsonrpc" \in DOMAIN env

----------------------------------------------------------------------------
(* handle_direct_post: POST /mcp without a session *)

METHOD_NOT_FOUND == -32601
INTERNAL_ERROR == -32603

\* lines 139-155
InitializeResult ==
    [protocolVersion |-> "2024-11-05",
     capabilities |-> [experimental |-> {}, tools |-> [listChanged |-> FALSE]],
     serverInfo |-> [name |-> "mcp-time", version |-> "1.0.0"]]

\* line 135: logger.info(f"Direct POST request: {json_data}")
InfoLine(body) == <<"INFO", "Direct POST request: ", body>>

\* line 236: logger.error(f"Error handling direct POST: {e}")
ErrorLine(detail) == <<"ERROR", "Error handling direct POST: ", detail>>

\* the error envelope without the request's id
method_not_found_null_id(body) ==
    JSONResponse([jsonrpc |-> "2.0",
                  id |-> None,
                  error |-> [code |-> METHOD_NOT_FOUND,
                             message |-> <<"Method not found: ", body.method>>]],
                 400, <<InfoLine(body)>>)

\* lines 222-233: any other method
method_not_found(body) ==
    JSONResponse([jsonrpc |-> "2.0",
                  id |-> body.id,
                  error |-> [code |-> METHOD_NOT_FOUND,
                             message |-> <<"Method not found: ", body.method>>]],
                 400, <<InfoLine(body)>>)

\* lines 235-246: the except branch, entered with the exception's str(e).
\* The id is json_data.get("id") when json_data is bound: on a body that
\* is JSON but no object that call raises AttributeError again, now outside
\* any try, before a response exists.
internal_error(body, detail, logged) ==
    IF body.kind = "nonobject"
    THEN Propagated(logged \o <<ErrorLine(detail)>>)
    ELSE JSONResponse([jsonrpc |-> "2.0",
                       id |-> IF body.kind = "object" THEN body.id ELSE None,
                       error |-> [code |-> INTERNAL_ERROR,
                                  message |-> <<"Internal error: ", detail>>]],
                      500, logged \o <<ErrorLine(detail)>>)

\* lines 123-246
handle_direct_post(body, tz) ==
    IF body.kind = "invalid"
    THEN \* line 134: request.json() raises, json_data stays unbound
         internal_error(body, <<body.detail>>, <<>>)
    ELSE IF body.kind = "nonobject"
    THEN \* line 138: json_data.get raises AttributeError
         internal_error(body, <<"'", body.json, "' object has no attribute 'get'">>,
                        <<InfoLine(body)>>)
    ELSE CASE body.method = "initialize" ->
                JSONResponse([jsonrpc |-> "2.0", id |-> body.id, result |-> InitializeResult],
                             200, <<InfoLine(body)>>)
           [] body.method = "notifications/initialized" ->
                Response(202, <<InfoLine(body)>>)
           [] body.method = "tools/list" ->
                JSONResponse([jsonrpc |-> "2.0", id |-> body.id,
                              result |-> [tools |-> tools_list(tz)]],
                             200, <<InfoLine(body)>>)
           [] OTHER -> method_not_found(body)

----------------------------------------------------------------------------
(* app: the router *)

Paths == {"/mcp", "/messages", "/", "/health", "/.well-known/mcp-config", "/favicon.ico"}

HttpMethods == {"GET", "POST", "PUT"}

\* lines 259-319: the if/elif chain, as the branch it takes
Route(path, method) ==
    IF path = "/mcp"
    THEN IF method = "GET" THEN "handle_mcp_sse"
         ELSE IF method = "POST" THEN "handle_direct_post"
         ELSE "no branch"
    ELSE IF path = "/messages" /\ method = "POST" THEN "handle_post_messages"
    ELSE IF path = "/" \/ path = "/health" THEN "health"
    ELSE IF path = "/.well-known/mcp-config" THEN "mcp-config"
    ELSE "not found"

----------------------------------------------------------------------------
(* The session a GET /mcp opens, and the messages relayed into it *)

\* the JSON-RPC messages a client POSTs to /messages for its session
SessionMessages ==
    [method : {"initialize", "tools/list", "resources/list", "malformed"}]
    \cup [method : {"tools/call"}, params : ToolCalls]

NoOut == [handler |-> "none"]

\* the exchange a handler step completed: the route taken, the session or
\* client it served, the request, the HTTP response of app, on the session
\* path what the dispatched handler handed back, and whether app returned
Exchange(route, who, request, response, out) ==
    [route |-> route, who |-> who, request |-> request, response |-> response, out |-> out,
     returned |-> TRUE]

\* the SSE response of GET /mcp once its handler has returned
StreamEnded(s) ==
    Exchange("handle_mcp_sse", s, [path |-> "/mcp", method |-> "GET"],
             Response(200, <<>>), NoOut)

\* the session's order awaiting-initialize -> ready: requests other than
\* initialize are served only once the session is ready
Serves(state) == state = "ready"

\* what server.run (line 113) does with one message: initialize makes the
\* session ready; tools/list and tools/call reach the handlers registered
\* at lines 26 and 68; every other message is answered or dropped inside
\* the session library
Dispatch(state, msg, tz) ==
    CASE msg.method = "initialize" -> [handler |-> "initialize", answered |-> TRUE]
      [] msg.method = "tools/list" /\ Serves(state) ->
            [handler |-> "list_tools", answered |-> TRUE, got |-> Returned(list_tools(tz), FALSE)]
      [] msg.method = "tools/call" /\ Serves(state) ->
            [handler |-> "call_tool", answered |-> TRUE,
             got |-> call_tool(msg.params.name, msg.params.arguments)]
      [] OTHER -> [handler |-> "rejected", answered |-> FALSE]

----------------------------------------------------------------------------
(* The state after create_app, before the ASGI server calls app *)

Init ==
    /\ local_tz \in LocalZones
    /\ lifespan = "waiting"
    /\ stream = [s \in Sessions |-> "none"]
    /\ closedBy = [s \in Sessions |-> "none"]
    /\ sessState = [s \in Sessions |-> "awaiting-initialize"]
    /\ last = Exchange("none", 0, [path |-> "", method |-> ""], NothingSent, NoOut)
    /\ initAnswered = {}

----------------------------------------------------------------------------
(* app with scope["type"] == "lifespan" (lines 320-331) *)

LifespanStartup ==
    /\ lifespan = "waiting"
    /\ lifespan' = "started"
    /\ UNCHANGED <<local_tz, stream, closedBy, sessState, last, initAnswered>>

\* lifespan.shutdown: the loop returns and the server stops, which ends
\* every stream still open
LifespanShutdown ==
    /\ lifespan = "started"
    /\ lifespan' = "shutdown"
    /\ stream' = [s \in Sessions |-> IF stream[s] = "open" THEN "closed" ELSE stream[s]]
    /\ closedBy' = [s \in Sessions |-> IF stream[s] = "open" THEN "shutdown" ELSE closedBy[s]]
    /\ sessState' = [s \in Sessions |-> IF stream[s] = "open" THEN "closed" ELSE sessState[s]]
    /\ UNCHANGED <<local_tz, last, initAnswered>>

----------------------------------------------------------------------------
(* app with scope["type"] == "http" (lines 253-319) *)

\* GET /mcp: handle_mcp_sse enters connect_sse, which opens the stream,
\* and awaits server.run (lines 108-113)
McpGet(s, path, method) ==
    /\ lifespan = "started"
    /\ Route(path, method) = "handle_mcp_sse"
    /\ stream[s] = "none"
    /\ stream' = [stream EXCEPT ![s] = "open"]
    /\ sessState' = [sessState EXCEPT ![s] = "awaiting-initialize"]
    /\ last' = [Exchange("handle_mcp_sse", s, [path |-> path, method |-> method],
                         [status |-> 200, env |-> NoBody, sent |-> <<START>>,
                          raised |-> FALSE, logged |-> <<>>], NoOut)
                   EXCEPT !.returned = FALSE]
    /\ UNCHANGED <<local_tz, lifespan, closedBy, initAnswered>>

\* server.run raises (line 113): the except clause logs the error (lines
\* 114-117), the async with block is left and handle_mcp_sse returns,
\* which ends the SSE response
SessionFailure(s) ==
    /\ lifespan = "started"
    /\ stream[s] = "open"
    /\ stream' = [stream EXCEPT ![s] = "closed"]
    /\ closedBy' = [closedBy EXCEPT ![s] = "failure"]
    /\ sessState' = [sessState EXCEPT ![s] = "closed"]
    /\ last' = [StreamEnded(s) EXCEPT
                   !.response.logged = <<<<"ERROR", "Error in MCP session: ">>>>]
    /\ UNCHANGED <<local_tz, lifespan, initAnswered>>

\* the client disconnects: server.run returns and the async with block is left
ClientDisconnect(s) ==
    /\ lifespan = "started"
    /\ stream[s] = "open"
    /\ stream' = [stream EXCEPT ![s] = "closed"]
    /\ closedBy' = [closedBy EXCEPT ![s] = "disconnect"]
    /\ sessState' = [sessState EXCEPT ![s] = "closed"]
    /\ last' = StreamEnded(s)
    /\ UNCHANGED <<local_tz, lifespan, initAnswered>>

\* POST /messages: handle_post_messages hands the request to the transport
\* (lines 119-121), which accepts it with 202 and relays the message to the
\* open session's server.run, or answers 404 when the session has no open
\* stream; a body that is no JSON-RPC message is answered 400.  The relay
\* and the dispatch of the message are taken as one step: how server.run
\* schedules the messages of one session is not part of this file.
MessagesPost(s, msg, path, method) ==
    /\ lifespan = "started"
    /\ Route(path, method) = "handle_post_messages"
    /\ LET open == stream[s] = "open"
           out == IF open THEN Dispatch(sessState[s], msg, local_tz) ELSE NoOut
           status == IF ~open THEN 404 ELSE IF msg.method = "malformed" THEN 400 ELSE 202
       IN  /\ last' = Exchange("handle_post_messages", s, msg, Response(status, <<>>), out)
           /\ sessState' = [sessState EXCEPT ![s] =
                               IF open /\ msg.method = "initialize" THEN "ready" ELSE @]
    /\ UNCHANGED <<local_tz, lifespan, stream, closedBy, initAnswered>>

\* a direct POST handler that keeps connection state: tools/list is
\* refused until an initialize of the same client was answered
McpPost_gated(c, body, path, method) ==
    /\ lifespan = "started"
    /\ Route(path, method) = "handle_direct_post"
    /\ LET refused == /\ body.kind = "object"
                      /\ body.method = "tools/list"
                      /\ c \notin initAnswered
           r == IF refused THEN method_not_found(body)
                ELSE handle_direct_post(body, local_tz)
       IN  /\ last' = Exchange("handle_direct_post", c, body, r, NoOut)
           /\ initAnswered' =
                 IF body.kind = "object" /\ body.method = "initialize"
                    /\ IsEnvelope(r.env) /\ "result" \in DOMAIN r.env
                 THEN initAnswered \cup {c} ELSE initAnswered
    /\ UNCHANGED <<local_tz, lifespan, stream, closedBy, sessState>>

\* POST /mcp: handle_direct_post (line 265)
McpPost(c, body, path, method) ==
    /\ lifespan = "started"
    /\ Route(path, method) = "handle_direct_post"
    /\ LET r == handle_direct_post(body, local_tz)
       IN  /\ last' = Exchange("handle_direct_post", c, body, r, NoOut)
           /\ initAnswered' =
                 IF body.kind = "object" /\ body.method = "initialize"
                    /\ IsEnvelope(r.env) /\ "result" \in DOMAIN r.env
                 THEN initAnswered \cup {c} ELSE initAnswered
    /\ UNCHANGED <<local_tz, lifespan, stream, closedBy, sessState>>

\* /mcp with a method that is neither GET nor POST: the inner if/elif of
\* lines 260-265 has no else, so app returns without sending
McpOther(path, method) ==
    /\ lifespan = "started"
    /\ Route(path, method) = "no branch"
    /\ last' = Exchange("no branch", 0, [path |-> path, method |-> method], NothingSent, NoOut)
    /\ UNCHANGED <<local_tz, lifespan, stream, closedBy, sessState, initAnswered>>

\* / and /health (lines 268-286): a 200 start and a body, sent by hand
Health(path, method) ==
    /\ lifespan = "started"
    /\ Route(path, method) = "health"
    /\ last' = Exchange("health", 0, [path |-> path, method |-> method],
                        Response(200, <<>>), NoOut)
    /\ UNCHANGED <<local_tz, lifespan, stream, closedBy, sessState, initAnswered>>

\* /.well-known/mcp-config (lines 287-308): a 200 start and a body
McpConfig(path, method) ==
    /\ lifespan = "started"
    /\ Route(path, method) = "mcp-config"
    /\ last' = Exchange("mcp-config", 0, [path |-> path, method |-> method],
                        Response(200, <<>>), NoOut)
    /\ UNCHANGED <<local_tz, lifespan, stream, closedBy, sessState, initAnswered>>

\* every other route (lines 309-319): a 404 start and the body "Not Found"
NotFound(path, method) ==
    /\ lifespan = "started"
    /\ Route(path, method) = "not found"
    /\ last' = Exchange("not found", 0, [path |-> path, method |-> method],
                        Response(404, <<>>), NoOut)
    /\ UNCHANGED <<local_tz, lifespan, stream, closedBy, sessState, initAnswered>>

----------------------------------------------------------------------------

Next ==
    \/ LifespanStartup
    \/ LifespanShutdown
    \/ \E s \in Sessions, path \in Paths, method \in HttpMethods : McpGet(s, path, method)
    \/ \E s \in Sessions : SessionFailure(s)
    \/ \E s \in Sessions : ClientDisconnect(s)
    \/ \E s \in Sessions, msg \in SessionMessages, path \in Paths, method \in HttpMethods :
          MessagesPost(s, msg, path, method)
    \/ \E c \in Clients, body \in Bodies, path \in Paths, method \in HttpMethods :
          McpPost(c, body, path, method)
    \/ \E path \in Paths, method \in HttpMethods : McpOther(path, method)
    \/ \E path \in Paths, method \in HttpMethods : Health(path, method)
    \/ \E path \in Paths, method \in HttpMethods : McpConfig(path, method)
    \/ \E path \in Paths, method \in HttpMethods : NotFound(path, method)

Spec == Init /\ [][Next]_vars

----------------------------------------------------------------------------
(* Vocabulary of the properties *)

HasResult(env) == IsEnvelope(env) /\ "result" \in DOMAIN env

HasError(env) == IsEnvelope(env) /\ "error" \in DOMAIN env

IsMethodNotFound(env) == HasError(env) /\ env.error.code = METHOD_NOT_FOUND

IsInternalError(env) == HasError(env) /\ env.error.code = INTERNAL_ERROR

Range(seq) == {seq[i] : i \in DOMAIN seq}

\* the id of the request a body carries: None when it has none to carry
RequestId(body) == IF body.kind = "object" THEN body.id ELSE None

\* the four methods the interface names
InterfaceMethods == {"initialize", "notifications/initialized", "tools/list", "tools/call"}

\* the two descriptors: name and required fields
TwoDescriptors ==
    << <<"get_current_time", <<"timezone">> >>,
       <<"convert_time", <<"source_timezone", "time", "target_timezone">> >> >>

NamesAndRequired(tools) == [i \in DOMAIN tools |-> <<tools[i].name, tools[i].required>>]

Registry == {"get_current_time", "convert_time"}

RequiredOf(name) ==
    IF name = "get_current_time" THEN {"timezone"}
    ELSE {"source_timezone", "time", "target_timezone"}

\* what the session server keeps between requests, and the streams
ServerState == <<local_tz, lifespan, stream, closedBy, sessState>>

\* the step is a POST /mcp: last' then holds its client and its body
DirectStep ==
    /\ last'.route = "handle_direct_post"
    /\ McpPost(last'.who, last'.request, "/mcp", "POST")

\* the step is a POST /messages: last' then holds its session and its message
SessionStep ==
    /\ last'.route = "handle_post_messages"
    /\ MessagesPost(last'.who, last'.request, "/messages", "POST")

IsDirect(x) == x.route = "handle_direct_post"

IsDirectObject(x) == IsDirect(x) /\ x.request.kind = "object"

----------------------------------------------------------------------------
(* C2 *)

\* C2: tools/call validates before invoking: a tool name that is not
\* registered fails with the unknown-tool error, and for a registered tool
\* every required argument that is absent fails with a missing-argument
\* error whose message names that field; in neither case is the time
\* operation invoked.
C2_ValidatesAndNamesField ==
    last.out.handler = "call_tool" =>
        LET name == last.request.params.name
            arguments == last.request.params.arguments
            got == last.out.got
        IN  /\ name \notin Registry =>
                  /\ got.raised
                  /\ "Unknown tool: " \in Range(got.message)
                  /\ name \in Range(got.message)
                  /\ ~got.invoked
            /\ name \in Registry =>
                  \A field \in RequiredOf(name) :
                      field \notin DOMAIN arguments =>
                          /\ got.raised
                          /\ \E i \in DOMAIN got.message :
                                got.message[i] \in {"Missing required argument: ",
                                                    "Missing required arguments"}
                          /\ field \in Range(got.message)
                          /\ ~got.invoked

----------------------------------------------------------------------------
(* C3 *)

\* C3: a POST to the tool endpoint /mcp carrying an envelope with one of
\* the four methods initialize, notifications/initialized, tools/list and
\* tools/call is accepted; a tools/call envelope in particular is never
\* answered with a method-not-found error.
C3_ToolsCallAcceptedOnMcp ==
    (IsDirectObject(last) /\ last.request.method \in InterfaceMethods) =>
        ~IsMethodNotFound(last.response.env)

----------------------------------------------------------------------------
(* C4 *)

\* C4: for every body POSTed to /mcp (a well-formed envelope, a body that
\* is not JSON, JSON that is not an object) handle_direct_post sends
\* exactly one response and lets no exception out; when the request fails
\* the response is an error envelope with a code and a message.
C4_AllErrorsCaught ==
    IsDirect(last) =>
        /\ ~last.response.raised
        /\ last.response.sent = <<START, BODY>>
        /\ last.request.kind # "object" =>
              /\ HasError(last.response.env)
              /\ DOMAIN last.response.env.error = {"code", "message"}

----------------------------------------------------------------------------
(* C5 *)

\* C5: a stream opened by GET /mcp is closed only by the client
\* disconnecting or by shutdown, never by a failure raised while its
\* session runs.
C5_FailureNeverClosesStream ==
    \A s \in Sessions : stream[s] = "closed" => closedBy[s] \in {"disconnect", "shutdown"}

----------------------------------------------------------------------------
(* C8 *)

\* C8: the envelope sent for an internal error is generic: it is the
\* envelope any other unexpected failure of a request with the same id is
\* answered with, whatever the detail of the exception.
C8_InternalErrorIsGeneric ==
    (IsDirect(last) /\ IsInternalError(last.response.env)) =>
        \A other \in Bodies :
            LET r == handle_direct_post(other, local_tz)
            IN  (IsInternalError(r.env) /\ RequestId(other) = RequestId(last.request))
                    => r.env = last.response.env

----------------------------------------------------------------------------
(* C10 *)

\* C10: whatever the path and the HTTP method, when app returns it has sent
\* exactly one http.response.start followed by a response body, and a
\* route it does not know is answered 404.
C10_EveryRequestAnswered ==
    (last.route # "none" /\ last.returned /\ ~last.response.raised) =>
        /\ last.response.sent = <<START, BODY>>
        /\ last.route = "not found" => last.response.status = 404

----------------------------------------------------------------------------
(* C1 *)

\* C1: every tools/list request, on the direct POST path and on the session
\* handler list_tools alike, whatever requests came before it, is answered
\* with exactly the two descriptors get_current_time and convert_time with
\* their required fields, the same list on both paths, and answering it
\* changes no server state.
C1_ToolsListStable ==
    [][ /\ (DirectStep /\ last'.request.kind = "object"
                        /\ last'.request.method = "tools/list") =>
              /\ HasResult(last'.response.env)
              /\ NamesAndRequired(last'.response.env.result.tools) = TwoDescriptors
              /\ last'.response.env.result.tools = list_tools(local_tz)
              /\ UNCHANGED ServerState
        /\ (SessionStep /\ last'.request.method = "tools/list"
                         /\ sessState[last'.who] = "ready") =>
              /\ last'.out.handler = "list_tools"
              /\ NamesAndRequired(last'.out.got.value) = TwoDescriptors
              /\ UNCHANGED ServerState
      ]_vars

\* C1 witness: tools/list answered on the direct path after an initialize
\* was answered and after a session failed
C1_Witness ==
    /\ IsDirectObject(last)
    /\ last.request.method = "tools/list"
    /\ HasResult(last.response.env)
    /\ initAnswered # {}
    /\ \E s \in Sessions : closedBy[s] = "failure"

----------------------------------------------------------------------------
(* C6 *)

\* C6 as stated: a tools/list or tools/call request is answered with a
\* result only if an initialize request from the same client was answered
\* before it, on the direct POST path as on a session, and a closed session
\* answers nothing.
C6_InitializeFirst ==
    [][ /\ (/\ DirectStep
             /\ last'.request.kind = "object"
             /\ last'.request.method \in {"tools/list", "tools/call"}
             /\ HasResult(last'.response.env)) => last'.who \in initAnswered
        /\ (/\ SessionStep
             /\ last'.request.method \in {"tools/list", "tools/call"}
             /\ last'.out.handler \in {"list_tools", "call_tool"})
                => sessState[last'.who] = "ready"
        /\ (SessionStep /\ stream[last'.who] = "closed") => last'.out = NoOut
      ]_vars

\* C6 amended: the order is kept on a session (a tools/list or tools/call
\* message reaches its handler only in the ready state, and a closed
\* session answers nothing), while the direct POST handler keeps no
\* connection state: it answers tools/list with a result whether or not an
\* initialize request of that client was answered before, and tools/call
\* with an error in both cases.
C6_DirectPostIsStateless ==
    [][ /\ (DirectStep /\ last'.request.kind = "object") =>
              /\ last'.request.method = "tools/list" => HasResult(last'.response.env)
              /\ last'.request.method = "tools/call" => HasError(last'.response.env)
        /\ (/\ SessionStep
             /\ last'.request.method \in {"tools/list", "tools/call"}
             /\ last'.out.handler \in {"list_tools", "call_tool"})
                => sessState[last'.who] = "ready"
        /\ (SessionStep /\ stream[last'.who] = "closed") => last'.out = NoOut
      ]_vars

\* C6 witness: tools/list answered with a result on the direct path to a
\* client none of whose initialize requests was answered
C6_Witness ==
    /\ IsDirectObject(last)
    /\ last.request.method = "tools/list"
    /\ HasResult(last.response.env)
    /\ last.who \notin initAnswered

----------------------------------------------------------------------------
(* C7 *)

\* C7: an envelope POSTed to /mcp with a method outside the interface is
\* answered with {jsonrpc: "2.0", id, error: {code, message}}, the error
\* being method-not-found and the id the request's; every response envelope
\* carries the id of its request and exactly one of result and error; and
\* answering a request, on /mcp or on /messages, closes no stream.
C7_ErrorEnvelopes ==
    [][ /\ DirectStep =>
              LET env == last'.response.env
                  body == last'.request
              IN  /\ (body.kind = "object" /\ body.method \notin InterfaceMethods) =>
                        /\ IsMethodNotFound(env)
                        /\ DOMAIN env = {"jsonrpc", "id", "error"}
                        /\ DOMAIN env.error = {"code", "message"}
                        /\ env.jsonrpc = "2.0"
                        /\ env.id = body.id
                        /\ env.error.message = <<"Method not found: ", body.method>>
                  /\ IsEnvelope(env) =>
                        /\ env.id = RequestId(body)
                        /\ ("result" \in DOMAIN env) # ("error" \in DOMAIN env)
                  /\ UNCHANGED <<stream, closedBy>>
        /\ SessionStep => UNCHANGED <<stream, closedBy>>
      ]_vars

\* C7 witness: a method outside the interface, with an id, answered with
\* method-not-found while a stream is open
C7_Witness ==
    /\ IsDirectObject(last)
    /\ last.request.method = "resources/list"
    /\ last.request.id = "id2"
    /\ IsMethodNotFound(last.response.env)
    /\ \E s \in Sessions : stream[s] = "open"

====
